---- MODULE Spec2Model ----
(***************************************************************************)
(* A model of src/app.py, the Task CSV Builder: its schedule normalizer,   *)
(* its row defaulting and export, its CSV payload codec, its token store,  *)
(* its redemption page and its share button.                               *)
(*                                                                         *)
(* A Python str is a sequence of one-character strings, a Python bytes a   *)
(* sequence of integers 0..255.  A function that can raise returns a       *)
(* record [ok, val]; ok = FALSE is the exception.                          *)
(***************************************************************************)
EXTENDS Integers, Sequences, FiniteSets, TLC

VARIABLES
  now,             \* the clock, in ticks since the epoch
  TEMP_DOWNLOADS,  \* the token store: token -> {data, file_name, expires_at}
  issued,          \* history: every record create_temp_download has stored
  page,            \* the page the last request rendered
  link,            \* the payload link encode_csv_payload last produced
  decoded,         \* what decode_csv_payload last returned
  session,         \* st.session_state: share_token, share_expires_at, share_url
  pressed,         \* history: what the last press of the share button met
  shown,           \* what the share column of the builder page last showed
  signing,         \* what create_supabase_signed_csv_url last met and returned
  norm,            \* what normalize_schedule_to_hhmm was last given and returned
  table_df,        \* st.session_state.table_df: the task table
  defaults,        \* the defaults record of the builder page
  filled,          \* what fill_blank_with_default was last given and returned
  output_df,       \* the exported table
  public_url       \* what normalize_public_url was last given and returned

storeVars == <<TEMP_DOWNLOADS, issued, page>>
codecVars == <<link, decoded>>
shareVars == <<session, pressed, shown, signing>>
rowVars == <<norm, table_df, defaults, filled, output_df>>
urlVars == <<public_url>>
vars ==
  <<now, TEMP_DOWNLOADS, issued, page, link, decoded, session, pressed, shown, signing,
    norm, table_df, defaults, filled, output_df, public_url>>

(***************************************************************************)
(* Bounds of the model.                                                    *)
(***************************************************************************)
\* Clock resolution: ticks per second (datetime carries sub-second time).
TicksPerSec == 2
\* The clock is read on a whole minute and up to ClockWindow ticks after it.
ClockWindow == 1
\* The last minute the clock reaches (it starts at minute 1).
MaxMinute == 2
\* create_temp_download is called at most MaxTokens times.
MaxTokens == 2
\* The task table holds at most MaxRows rows.
MaxRows == 2
\* A schedule text has at most MaxText characters.
MaxText == 4
\* A raw base URL is made of at most MaxPieces pieces.
MaxPieces == 4

(***************************************************************************)
(* Python built-ins on str and bytes.                                      *)
(***************************************************************************)
Ok(v) == [ok |-> TRUE, val |-> v]
Raise == [ok |-> FALSE, val |-> <<>>]

\* The printable ASCII characters, code 32 first (code 96 by name).
AsciiTable ==
  <<" ", "!", "\"", "#", "$", "%", "&", "'", "(", ")", "*", "+", ",", "-", ".", "/",
    "0", "1", "2", "3", "4", "5", "6", "7", "8", "9", ":", ";", "<", "=", ">", "?",
    "@", "A", "B", "C", "D", "E", "F", "G", "H", "I", "J", "K", "L", "M", "N", "O",
    "P", "Q", "R", "S", "T", "U", "V", "W", "X", "Y", "Z", "[", "\\", "]", "^", "_",
    "grave", "a", "b", "c", "d", "e", "f", "g", "h", "i", "j", "k", "l", "m", "n", "o",
    "p", "q", "r", "s", "t", "u", "v", "w", "x", "y", "z", "{", "|", "}", "~" >>

\* ord(c), as a table.
OrdTable ==
  [c \in {AsciiTable[i] : i \in DOMAIN AsciiTable} |->
     31 + (CHOOSE i \in DOMAIN AsciiTable : AsciiTable[i] = c)]
Ord(c) == OrdTable[c]
Chr(n) == AsciiTable[n - 31]
IsAscii(n) == n \in 32..126

\* str.encode("utf-8") and bytes.decode("ascii"/"utf-8"), on printable ASCII.
StrEncode(s) == [i \in DOMAIN s |-> Ord(s[i])]
BytesDecode(b) ==
  IF \A i \in DOMAIN b : IsAscii(b[i])
  THEN Ok([i \in DOMAIN b |-> Chr(b[i])])
  ELSE Raise

Digits == <<"0", "1", "2", "3", "4", "5", "6", "7", "8", "9">>
DigitSet == {Digits[i] : i \in DOMAIN Digits}
IsDigit(c) == c \in DigitSet
DigitVal(c) == Ord(c) - Ord("0")

\* int(text) of a text of decimal digits.
RECURSIVE DigitsToInt(_)
DigitsToInt(s) ==
  IF s = <<>> THEN 0
  ELSE 10 * DigitsToInt(SubSeq(s, 1, Len(s) - 1)) + DigitVal(s[Len(s)])

\* str(n) of a natural number.
RECURSIVE NatToStr(_)
NatToStr(n) ==
  IF n < 10 THEN <<Digits[n + 1]>>
  ELSE NatToStr(n \div 10) \o <<Digits[(n % 10) + 1]>>

\* str(n) of an integer.
IntToStr(n) == IF n < 0 THEN <<"-">> \o NatToStr(-n) ELSE NatToStr(n)

\* str.strip(): leading and trailing whitespace removed.
RECURSIVE LStrip(_)
LStrip(s) == IF s # <<>> /\ s[1] = " " THEN LStrip(Tail(s)) ELSE s
RECURSIVE RStrip(_)
RStrip(s) ==
  IF s # <<>> /\ s[Len(s)] = " " THEN RStrip(SubSeq(s, 1, Len(s) - 1)) ELSE s
Strip(s) == RStrip(LStrip(s))

\* str.rstrip(c) for one character c.
RECURSIVE RStripChar(_, _)
RStripChar(s, c) ==
  IF s # <<>> /\ s[Len(s)] = c THEN RStripChar(SubSeq(s, 1, Len(s) - 1), c) ELSE s

\* c repeated n times.
Repeat(c, n) == [i \in 1..n |-> c]

\* str.startswith(p)
StartsWith(s, p) == Len(s) >= Len(p) /\ SubSeq(s, 1, Len(p)) = p

(***************************************************************************)
(* base64 (the standard library's non-strict decoder, binascii).           *)
(***************************************************************************)
B64Alphabet ==
  <<"A", "B", "C", "D", "E", "F", "G", "H", "I", "J", "K", "L", "M", "N", "O", "P",
    "Q", "R", "S", "T", "U", "V", "W", "X", "Y", "Z", "a", "b", "c", "d", "e", "f",
    "g", "h", "i", "j", "k", "l", "m", "n", "o", "p", "q", "r", "s", "t", "u", "v",
    "w", "x", "y", "z", "0", "1", "2", "3", "4", "5", "6", "7", "8", "9", "+", "/" >>

B64Char(v) == B64Alphabet[v + 1]
\* The value of each character of the alphabet, as a table.
B64Table ==
  [c \in {B64Alphabet[i] : i \in DOMAIN B64Alphabet} |->
     (CHOOSE i \in DOMAIN B64Alphabet : B64Alphabet[i] = c) - 1]
InB64(c) == c \in DOMAIN B64Table
B64Val(c) == B64Table[c]

\* base64.b64encode(b).decode("ascii")
RECURSIVE B64Encode(_)
B64Encode(b) ==
  IF Len(b) = 0 THEN <<>>
  ELSE IF Len(b) = 1 THEN
    <<B64Char(b[1] \div 4), B64Char((b[1] % 4) * 16), "=", "=">>
  ELSE IF Len(b) = 2 THEN
    <<B64Char(b[1] \div 4), B64Char((b[1] % 4) * 16 + b[2] \div 16),
      B64Char((b[2] % 16) * 4), "=">>
  ELSE
    <<B64Char(b[1] \div 4), B64Char((b[1] % 4) * 16 + b[2] \div 16),
      B64Char((b[2] % 16) * 4 + b[3] \div 64), B64Char(b[3] % 64)>>
    \o B64Encode(SubSeq(b, 4, Len(b)))

\* binascii.a2b_base64, strict_mode off: characters outside the alphabet are
\* skipped, a complete run of padding ends the input, and an incomplete last
\* quad is "Incorrect padding".
RECURSIVE A2bBase64(_, _, _, _, _, _)
A2bBase64(s, i, quad, pads, left, acc) ==
  IF i > Len(s) THEN (IF quad # 0 THEN Raise ELSE Ok(acc))
  ELSE IF s[i] = "=" THEN
    IF quad >= 2 /\ quad + pads + 1 >= 4 THEN Ok(acc)
    ELSE A2bBase64(s, i + 1, quad, IF quad >= 2 THEN pads + 1 ELSE pads, left, acc)
  ELSE IF ~InB64(s[i]) THEN A2bBase64(s, i + 1, quad, pads, left, acc)
  ELSE LET v == B64Val(s[i]) IN
    CASE quad = 0 -> A2bBase64(s, i + 1, 1, 0, v, acc)
      [] quad = 1 ->
           A2bBase64(s, i + 1, 2, 0, v % 16, Append(acc, left * 4 + v \div 16))
      [] quad = 2 ->
           A2bBase64(s, i + 1, 3, 0, v % 4, Append(acc, left * 16 + v \div 4))
      [] OTHER -> A2bBase64(s, i + 1, 0, 0, 0, Append(acc, left * 64 + v))

\* base64.b64decode(s)
B64Decode(s) == A2bBase64(s, 1, 0, 0, 0, <<>>)

\* bytes.translate of the URL-safe alphabet: "+/" <-> "-_".
ToUrlSafe(s) ==
  [i \in DOMAIN s |-> IF s[i] = "+" THEN "-" ELSE IF s[i] = "/" THEN "_" ELSE s[i]]
FromUrlSafe(s) ==
  [i \in DOMAIN s |-> IF s[i] = "-" THEN "+" ELSE IF s[i] = "_" THEN "/" ELSE s[i]]

\* base64.urlsafe_b64encode(b).decode("ascii")
UrlsafeB64Encode(b) == ToUrlSafe(B64Encode(b))
\* base64.urlsafe_b64decode(s)
UrlsafeB64Decode(s) == B64Decode(FromUrlSafe(s))

(***************************************************************************)
(* zlib.  The container is modelled byte for byte (the two header bytes of *)
(* level 9 and the Adler-32 trailer); the deflate body between them is     *)
(* modelled as the stored text.                                            *)
(***************************************************************************)
RECURSIVE AdlerSums(_, _, _, _)
AdlerSums(b, i, s1, s2) ==
  IF i > Len(b) THEN <<s1, s2>>
  ELSE LET a == (s1 + b[i]) % 65521 IN AdlerSums(b, i + 1, a, (s2 + a) % 65521)

\* zlib.adler32(b), as its four big-endian bytes.
Adler32(b) ==
  LET s == AdlerSums(b, 1, 1, 0) IN
    <<s[2] \div 256, s[2] % 256, s[1] \div 256, s[1] % 256>>

ZlibHeader == <<120, 218>>

\* zlib.compress(raw, level=9)
ZlibCompress(raw) == ZlibHeader \o raw \o Adler32(raw)

\* zlib.decompress(b): zlib.error on a bad header or a bad checksum.
ZlibDecompress(b) ==
  IF Len(b) < 6 \/ SubSeq(b, 1, 2) # ZlibHeader THEN Raise
  ELSE LET body == SubSeq(b, 3, Len(b) - 4) IN
    IF SubSeq(b, Len(b) - 3, Len(b)) = Adler32(body) THEN Ok(body) ELSE Raise

(***************************************************************************)
(* json.  A parsed value is [t, v]: t = "int" with v an integer, t = "str" *)
(* with v a str, t = "arr" (the empty list), or t = "obj" with v a         *)
(* sequence of <<key, value>> members in the order of the text.            *)
(***************************************************************************)
JInt(n) == [t |-> "int", v |-> n]
JStr(s) == [t |-> "str", v |-> s]
JArr == [t |-> "arr", v |-> <<>>]
JObj(members) == [t |-> "obj", v |-> members]

\* A parse step: ok, the value read, and the position after it.
Step(v, next) == [ok |-> TRUE, val |-> v, next |-> next]
NoStep == [ok |-> FALSE, val |-> <<>>, next |-> 0]

\* The end of the run of digits that starts at i.
RECURSIVE DigitsEnd(_, _)
DigitsEnd(s, i) == IF i <= Len(s) /\ IsDigit(s[i]) THEN DigitsEnd(s, i + 1) ELSE i

\* The position of the next double quote at or after i (Len(s) + 1 if none).
RECURSIVE QuoteAt(_, _)
QuoteAt(s, i) == IF i <= Len(s) /\ s[i] # "\"" THEN QuoteAt(s, i + 1) ELSE i

ParseInt(s, i) ==
  LET neg == i <= Len(s) /\ s[i] = "-"
      from == IF neg THEN i + 1 ELSE i
      to == DigitsEnd(s, from)
      n == DigitsToInt(SubSeq(s, from, to - 1))
  IN IF to = from \/ (to - from > 1 /\ s[from] = "0") THEN NoStep
     ELSE Step(JInt(IF neg THEN -n ELSE n), to)

ParseStr(s, i) ==
  IF i > Len(s) \/ s[i] # "\"" THEN NoStep
  ELSE LET q == QuoteAt(s, i + 1) IN
    IF q > Len(s) \/ (\E k \in (i + 1)..(q - 1) : s[k] = "\\") THEN NoStep
    ELSE Step(JStr(SubSeq(s, i + 1, q - 1)), q + 1)

ParseScalar(s, i) ==
  IF i <= Len(s) /\ s[i] = "\"" THEN ParseStr(s, i) ELSE ParseInt(s, i)

\* The members of an object, from the first key at i to the closing brace.
RECURSIVE ParseMembers(_, _, _)
ParseMembers(s, i, acc) ==
  LET k == ParseStr(s, i) IN
    IF ~k.ok \/ k.next > Len(s) \/ s[k.next] # ":" THEN NoStep
    ELSE LET x == ParseScalar(s, k.next + 1) IN
      IF ~x.ok \/ x.next > Len(s) THEN NoStep
      ELSE IF s[x.next] = "}" THEN Step(JObj(Append(acc, <<k.val.v, x.val>>)), x.next + 1)
      ELSE IF s[x.next] = "," THEN
        ParseMembers(s, x.next + 1, Append(acc, <<k.val.v, x.val>>))
      ELSE NoStep

ParseValue(s, i) ==
  IF i > Len(s) THEN NoStep
  ELSE IF s[i] = "{" THEN
    (IF i + 1 <= Len(s) /\ s[i + 1] = "}" THEN Step(JObj(<<>>), i + 2)
     ELSE ParseMembers(s, i + 1, <<>>))
  ELSE IF s[i] = "[" THEN
    (IF i + 1 <= Len(s) /\ s[i + 1] = "]" THEN Step(JArr, i + 2) ELSE NoStep)
  ELSE ParseScalar(s, i)

\* json.loads(text): json.JSONDecodeError unless the whole text is one value.
JsonLoads(s) ==
  LET p == ParseValue(s, 1) IN
    IF p.ok /\ p.next = Len(s) + 1 THEN Ok(p.val) ELSE Raise

\* json.dumps(envelope, separators=(",", ":")) of {"exp": exp, "b64": b64}
JsonDumpsEnvelope(exp, b64) ==
  <<"{", "\"", "e", "x", "p", "\"", ":">> \o IntToStr(exp)
    \o <<",", "\"", "b", "6", "4", "\"", ":", "\"">> \o b64 \o <<"\"", "}">>

\* dict.__contains__ and dict.__getitem__ on a parsed object (the last of
\* repeated keys wins).
HasKey(obj, key) == \E i \in DOMAIN obj.v : obj.v[i][1] = key
GetKey(obj, key) ==
  obj.v[CHOOSE i \in DOMAIN obj.v :
          /\ obj.v[i][1] = key
          /\ \A j \in DOMAIN obj.v : obj.v[j][1] = key => j <= i][2]

KeyExp == <<"e", "x", "p">>
KeyB64 == <<"b", "6", "4">>

\* int(x) of a parsed value: an int as it is, a str of digits parsed,
\* TypeError or ValueError otherwise.
PyInt(x) ==
  IF x.t = "int" THEN Ok(x.v)
  ELSE IF x.t = "str" THEN
    LET txt == Strip(x.v)
        neg == txt # <<>> /\ txt[1] = "-"
        ds == IF neg THEN Tail(txt) ELSE txt
    IN IF ds # <<>> /\ (\A i \in DOMAIN ds : IsDigit(ds[i]))
       THEN Ok(IF neg THEN -DigitsToInt(ds) ELSE DigitsToInt(ds))
       ELSE Raise
  ELSE Raise


(***************************************************************************)
(* Time.  The clock `now` counts ticks of 1/TicksPerSec second since the   *)
(* epoch; a datetime is a number of ticks.                                 *)
(***************************************************************************)
SecondsPerMinute == 60
MinuteTicks == SecondsPerMinute * TicksPerSec

\* timedelta(minutes=m)
Minutes(m) == m * MinuteTicks

\* int(d.timestamp()): the whole seconds of a datetime, truncated toward zero.
TimestampInt(d) == IF d >= 0 THEN d \div TicksPerSec ELSE -((-d) \div TicksPerSec)

(***************************************************************************)
(* The CSV payload codec.                                                  *)
(***************************************************************************)
NoBytes == [some |-> FALSE, val |-> <<>>]
SomeBytes(b) == [some |-> TRUE, val |-> b]
NoInt == [some |-> FALSE, val |-> 0]
SomeInt(n) == [some |-> TRUE, val |-> n]

\* The envelope's exp, computed when encode reads the clock at t.
EnvelopeExp(ttl_minutes, t) == TimestampInt(t + Minutes(ttl_minutes))

\* The envelope encode dumps.
EnvelopeText(data, exp) == JsonDumpsEnvelope(exp, B64Encode(data))

\* zlib.compress of the envelope text, URL-safe base64, padding stripped.
PackText(text) == RStripChar(UrlsafeB64Encode(ZlibCompress(StrEncode(text))), "=")

\* encode_csv_payload(data, ttl_minutes), the clock read at t.
encode_csv_payload(data, ttl_minutes, t) ==
  PackText(EnvelopeText(data, EnvelopeExp(ttl_minutes, t)))

\* The padding decode adds back.
DecodePad(payload) == Repeat("=", (4 - (Len(payload) % 4)) % 4)

\* A variant of PayloadExpired: an envelope is still good in its last second.
PayloadExpiredLate(exp, t) == exp < TimestampInt(t)

\* Whether an envelope with this exp is expired when the clock reads t.
PayloadExpired(exp, t) == exp <= TimestampInt(t)

\* The tail of decode_csv_payload, from the parsed envelope on.
DecodeEnvelope(envelope, t) ==
  IF envelope.t # "obj" THEN [data |-> NoBytes, exp |-> NoInt]
  ELSE LET e == PyInt(IF HasKey(envelope, KeyExp) THEN GetKey(envelope, KeyExp)
                      ELSE JInt(0))
       IN IF ~e.ok THEN [data |-> NoBytes, exp |-> NoInt]
          ELSE IF PayloadExpired(e.val, t) THEN [data |-> NoBytes, exp |-> SomeInt(e.val)]
          ELSE IF ~HasKey(envelope, KeyB64) \/ GetKey(envelope, KeyB64).t # "str"
            THEN [data |-> NoBytes, exp |-> NoInt]
          ELSE LET d == B64Decode(GetKey(envelope, KeyB64).v) IN
            IF d.ok THEN [data |-> SomeBytes(d.val), exp |-> SomeInt(e.val)]
            ELSE [data |-> NoBytes, exp |-> NoInt]

\* decode_csv_payload(payload), the clock read at t: (data, exp), each
\* possibly None; any exception is (None, None).
decode_csv_payload(payload, t) ==
  LET c == UrlsafeB64Decode(payload \o DecodePad(payload)) IN
  IF ~c.ok THEN [data |-> NoBytes, exp |-> NoInt]
  ELSE LET raw == ZlibDecompress(c.val) IN
  IF ~raw.ok THEN [data |-> NoBytes, exp |-> NoInt]
  ELSE LET text == BytesDecode(raw.val) IN
  IF ~text.ok THEN [data |-> NoBytes, exp |-> NoInt]
  ELSE LET envelope == JsonLoads(text.val) IN
  IF ~envelope.ok THEN [data |-> NoBytes, exp |-> NoInt]
  ELSE DecodeEnvelope(envelope.val, t)


(***************************************************************************)
(* The clock.  It starts at minute 1 and moves by single ticks after each  *)
(* whole minute and by whole minutes, up to MaxMinute.                     *)
(***************************************************************************)
StartClock == MinuteTicks
EndClock == MaxMinute * MinuteTicks + ClockWindow

\* Whether the clock may move one tick on from t.
FineTick(t) == (t % MinuteTicks) < ClockWindow

\* The whole minute after t.
NextMinute(t) == ((t \div MinuteTicks) + 1) * MinuteTicks

\* The readings of the clock.
ClockValues == {t \in StartClock..EndClock : (t % MinuteTicks) <= ClockWindow}

\* What a later datetime.now() of the same handler can read, the first read t.
LaterReads(t) == {t} \cup (IF FineTick(t) THEN {t + 1} ELSE {})

(***************************************************************************)
(* Inputs.                                                                 *)
(***************************************************************************)
\* CSV bytes: "A" and "A,B".
Data == {<<65>>, <<65, 44, 66>>}
\* What create_temp_download is given.
Downloads ==
  {[data |-> <<65>>, file_name |-> "tasks.csv"],
   [data |-> <<65, 44, 66>>, file_name |-> "other.csv"]}
\* The download a call of create_temp_download is given: the calls alternate
\* between the two.
DownloadOf(k) == CHOOSE d \in Downloads : (d.data = <<65>>) <=> (k % 2 = 1)
StoreTtls == {0, 1}
CodecTtls == {-1, 0, 1, 2}

\* Texts that are not the envelope encode writes, by what is wrong with them.
EmptyObjectText == <<"{", "}">>
NoExpText == <<"{", "\"", "b", "6", "4", "\"", ":", "\"", "Q", "Q", "=", "=", "\"", "}">>
NoDataText == <<"{", "\"", "e", "x", "p", "\"", ":", "9", "9", "9", "9", "}">>
NoDataOldText == <<"{", "\"", "e", "x", "p", "\"", ":", "9", "}">>
ArrayText == <<"[", "]">>
NumberText == <<"7">>
NotJsonText == <<"{", "\"", "e", "x", "p">>

ForeignPayloads ==
  {[kind |-> "bad base64", payload |-> <<"Q", "U", "J", "D", "Q">>],
   [kind |-> "not decompressible", payload |-> <<"Q", "U", "J", "D">>],
   [kind |-> "not decompressible",
    payload |-> RStripChar(UrlsafeB64Encode(ZlibHeader \o <<65, 0, 0, 0, 0>>), "=")],
   [kind |-> "not JSON", payload |-> PackText(NotJsonText)],
   [kind |-> "not an envelope", payload |-> PackText(ArrayText)],
   [kind |-> "not an envelope", payload |-> PackText(NumberText)],
   [kind |-> "no exp", payload |-> PackText(EmptyObjectText)],
   [kind |-> "no exp", payload |-> PackText(NoExpText)],
   [kind |-> "no data", payload |-> PackText(NoDataText)],
   [kind |-> "no data", payload |-> PackText(NoDataOldText)]}

\* The payloads requests carry: a link issued at the start, and foreign ones.
PagePayloads ==
  {encode_csv_payload(<<65, 44, 66>>, 1, StartClock),
   <<"Q", "U", "J", "D">>, PackText(EmptyObjectText)}

\* What encode is given.
CodecData == Data \cup {<<>>, <<65, 44>>}

\* A payload with a character outside the base64 alphabet put in after i.
Damaged(payload, i) ==
  SubSeq(payload, 1, i) \o <<"!">> \o SubSeq(payload, i + 1, Len(payload))
DamagedAt(payload) == {0, 5, Len(payload)}

\* encode_csv_payload and decode_csv_payload, tabulated over the inputs above.
EncodeTable ==
  [x \in CodecData \X CodecTtls \X ClockValues |->
     encode_csv_payload(x[1], x[2], x[3])] @@ <<>>
LinkPayloads == {EncodeTable[x] : x \in DOMAIN EncodeTable}
DecodeInputs ==
  LinkPayloads \cup UNION {{Damaged(p, i) : i \in DamagedAt(p)} : p \in LinkPayloads}
    \cup {f.payload : f \in ForeignPayloads} \cup PagePayloads
DecodeTable ==
  [x \in DecodeInputs \X ClockValues |-> decode_csv_payload(x[1], x[2])] @@ <<>>

(***************************************************************************)
(* The token store.                                                        *)
(***************************************************************************)
NoItem == [some |-> FALSE, val |-> [data |-> <<>>, file_name |-> "", expires_at |-> 0]]
SomeItem(rec) == [some |-> TRUE, val |-> rec]

\* TEMP_DOWNLOADS without the token tok.
DelToken(store, tok) == [k \in DOMAIN store \ {tok} |-> store[k]]

\* A variant of cleanup_temp_downloads: a record is kept at its expiry instant.
cleanup_temp_downloads_strict(store, t) ==
  [k \in {x \in DOMAIN store : ~(store[x].expires_at < t)} |-> store[k]]

\* cleanup_temp_downloads(), the clock read at t.
cleanup_temp_downloads(store, t) ==
  [k \in {x \in DOMAIN store : ~(store[x].expires_at <= t)} |-> store[k]]

\* create_temp_download(data, file_name, ttl_minutes): cleanup reads the clock
\* at t1, expires_at is computed from the read at t2, token is the fresh token.
create_temp_download(store, token, data, file_name, ttl_minutes, t1, t2) ==
  LET cleaned == cleanup_temp_downloads(store, t1)
      rec == [data |-> data, file_name |-> file_name,
              expires_at |-> t2 + Minutes(ttl_minutes)]
  IN [k \in DOMAIN cleaned \cup {token} |-> IF k = token THEN rec ELSE cleaned[k]]

\* A variant of get_temp_download: a token is good for one download only.
get_temp_download_once(store, token, t1, t2) ==
  LET cleaned == cleanup_temp_downloads(store, t1) IN
    IF token \notin DOMAIN cleaned THEN [store |-> cleaned, item |-> NoItem]
    ELSE IF cleaned[token].expires_at <= t2
      THEN [store |-> DelToken(cleaned, token), item |-> NoItem]
    ELSE [store |-> DelToken(cleaned, token), item |-> SomeItem(cleaned[token])]

\* A variant of get_temp_download: the expiry check lets the expiry instant pass.
get_temp_download_late(store, token, t1, t2) ==
  LET cleaned == cleanup_temp_downloads(store, t1) IN
    IF token \notin DOMAIN cleaned THEN [store |-> cleaned, item |-> NoItem]
    ELSE IF cleaned[token].expires_at < t2
      THEN [store |-> DelToken(cleaned, token), item |-> NoItem]
    ELSE [store |-> cleaned, item |-> SomeItem(cleaned[token])]

\* get_temp_download(token): cleanup reads the clock at t1, the expiry check
\* at t2.  The store after the call, and the item returned (None: some = FALSE).
get_temp_download(store, token, t1, t2) ==
  LET cleaned == cleanup_temp_downloads(store, t1) IN
    IF token \notin DOMAIN cleaned THEN [store |-> cleaned, item |-> NoItem]
    ELSE IF cleaned[token].expires_at <= t2
      THEN [store |-> DelToken(cleaned, token), item |-> NoItem]
    ELSE [store |-> cleaned, item |-> SomeItem(cleaned[token])]

(***************************************************************************)
(* The redemption page.                                                    *)
(***************************************************************************)
MsgPayloadExpired == "payload: this URL has expired"
MsgPayloadCorrupt == "payload: the shared URL is broken or unsupported"
MsgTokenInvalidOrExpired == "token: this URL is invalid or has expired"
MsgDownload == "download available"

NoToken == [some |-> FALSE, val |-> 0]
SomeToken(k) == [some |-> TRUE, val |-> k]

NoPage ==
  [view |-> "none", outcome |-> "none", msg |-> "", data |-> <<>>, file_name |-> "",
   payload |-> <<>>, token |-> NoToken, t1 |-> 0, at |-> 0]

\* A variant of PayloadPage: one error message for every failure.
PayloadPageOneMessage(payload, t) ==
  LET r == DecodeTable[<<payload, t>>] IN
    IF ~r.data.some THEN
      [view |-> "payload", outcome |-> "error", msg |-> MsgPayloadCorrupt,
       data |-> <<>>, file_name |-> ""]
    ELSE
      [view |-> "payload", outcome |-> "download", msg |-> MsgDownload,
       data |-> r.data.val, file_name |-> "tasks.csv"]

\* The page a request with a non-empty payload parameter renders.
PayloadPage(payload, t) ==
  LET r == DecodeTable[<<payload, t>>] IN
    IF ~r.data.some THEN
      [view |-> "payload", outcome |-> "error",
       msg |-> IF r.exp.some THEN MsgPayloadExpired ELSE MsgPayloadCorrupt,
       data |-> <<>>, file_name |-> ""]
    ELSE
      [view |-> "payload", outcome |-> "download", msg |-> MsgDownload,
       data |-> r.data.val, file_name |-> "tasks.csv"]

\* The page a request with a non-empty token parameter renders, item being
\* what get_temp_download returned.
TokenPage(item) ==
  IF ~item.some THEN
    [view |-> "token", outcome |-> "error", msg |-> MsgTokenInvalidOrExpired,
     data |-> <<>>, file_name |-> ""]
  ELSE
    [view |-> "token", outcome |-> "download", msg |-> MsgDownload,
     data |-> item.val.data, file_name |-> item.val.file_name]

\* The builder page, rendered when neither parameter is given.
MainPage ==
  [view |-> "main", outcome |-> "main", msg |-> "", data |-> <<>>, file_name |-> ""]

\* The request, as a record added to the page rendered (history).
Asked(payload, token, t1, t2) == [payload |-> payload, token |-> token, t1 |-> t1, at |-> t2]

\* Record concatenation.
Both(r1, r2) ==
  [k \in DOMAIN r1 \cup DOMAIN r2 |-> IF k \in DOMAIN r1 THEN r1[k] ELSE r2[k]]

(***************************************************************************)
(* str.replace, str.count, str.rfind.                                      *)
(***************************************************************************)
\* Whether sub occurs in s at position i (from 1).
OccursAt(s, sub, i) ==
  i + Len(sub) - 1 <= Len(s) /\ SubSeq(s, i, i + Len(sub) - 1) = sub

\* s.replace(old, new), old not empty.
RECURSIVE Replace(_, _, _)
Replace(s, old, new) ==
  IF s = <<>> THEN <<>>
  ELSE IF OccursAt(s, old, 1)
    THEN new \o Replace(SubSeq(s, Len(old) + 1, Len(s)), old, new)
  ELSE <<s[1]>> \o Replace(Tail(s), old, new)

\* s.count(sub), sub not empty.
RECURSIVE Count(_, _)
Count(s, sub) ==
  IF Len(s) < Len(sub) THEN 0
  ELSE IF OccursAt(s, sub, 1) THEN 1 + Count(SubSeq(s, Len(sub) + 1, Len(s)), sub)
  ELSE Count(Tail(s), sub)

\* s.lstrip(c)
RECURSIVE LStripChar(_, _)
LStripChar(s, c) == IF s # <<>> /\ s[1] = c THEN LStripChar(Tail(s), c) ELSE s

\* s.rfind(sub): the index (from 0) of the last occurrence, -1 if none.
RFind(s, sub) ==
  LET hits == {i \in 1..Len(s) : OccursAt(s, sub, i)} IN
    IF hits = {} THEN -1 ELSE (CHOOSE i \in hits : \A j \in hits : j <= i) - 1

PyMax(a, b) == IF a >= b THEN a ELSE b

(***************************************************************************)
(* The share link: the public URL, the signed-URL collaborator, the share  *)
(* button and the share column.                                            *)
(***************************************************************************)
Http == <<"h", "t", "t", "p", ":", "/", "/">>
Https == <<"h", "t", "t", "p", "s", ":", "/", "/">>
HttpTypo == <<"h", "t", "t", "p", ":", ":", "/", "/">>
HttpsTypo == <<"h", "t", "t", "p", "s", ":", ":", "/", "/">>

\* A variant of normalize_public_url: concatenated URLs are not collapsed.
normalize_public_url_whole(url) ==
  LET text0 == Strip(url) IN
  IF text0 = <<>> THEN <<>>
  ELSE
    LET text1 == Replace(Replace(text0, HttpsTypo, Https), HttpTypo, Http)
        text3 == IF ~StartsWith(text1, Http) /\ ~StartsWith(text1, Https)
                 THEN Https \o text1 ELSE text1
    IN RStripChar(text3, "/")

\* normalize_public_url(url)
normalize_public_url(url) ==
  LET text0 == Strip(url) IN
  IF text0 = <<>> THEN <<>>
  ELSE
    LET text1 == Replace(Replace(text0, HttpsTypo, Https), HttpTypo, Http)
        start == PyMax(RFind(text1, Https), RFind(text1, Http))
        text2 == IF Count(text1, Http) + Count(text1, Https) >= 2 /\ start >= 0
                 THEN SubSeq(text1, start + 1, Len(text1)) ELSE text1
        text3 == IF ~StartsWith(text2, Http) /\ ~StartsWith(text2, Https)
                 THEN Https \o text2 ELSE text2
    IN RStripChar(text3, "/")

DEFAULT_PUBLIC_APP_URL == <<"h", "t", "t", "p", "s", ":", "/", "/", "s", "t", "r", "e", "a", "m", "l", "i", "t", "c", "s", "v", ".", "s", "t", "r", "e", "a", "m", "l", "i", "t", ".", "a", "p", "p">>
FIXED_SHARE_TTL_MINUTES == 10

\* st.context.url as urlsplit reads it: unavailable (an exception or an empty
\* string), or its scheme and netloc.
NoContext == [known |-> FALSE, scheme |-> <<>>, netloc |-> <<>>]
Context(scheme, netloc) == [known |-> TRUE, scheme |-> scheme, netloc |-> netloc]

\* current_app_base_url()
current_app_base_url(ctx) ==
  IF ~ctx.known THEN DEFAULT_PUBLIC_APP_URL
  ELSE IF ctx.scheme = <<>> \/ ctx.netloc = <<>> THEN DEFAULT_PUBLIC_APP_URL
  ELSE ctx.scheme \o <<":", "/", "/">> \o ctx.netloc

Contexts ==
  {NoContext,
   Context(<<>>, <<>>),
   Context(<<"h", "t", "t", "p", "s">>, <<"a", ".", "a", "p", "p">>),
   Context(<<"h", "t", "t", "p">>, <<"l", "o", "c", "a", "l", "h", "o", "s", "t", ":", "8", "5", "0", "1">>)}

\* The collaborator's configuration and answers.  An answer to a request is
\* an exception, a status without a body read, or status 200 with a body:
\* malformed, or the signedURL field and the signedUrls list.
SUPABASE_URL == <<"h", "t", "t", "p", "s", ":", "/", "/", "s", ".", "c", "o">>
RespException == [kind |-> "exception", status |-> 0, signedURL |-> <<>>, signedUrls |-> <<>>]
RespStatus(code) == [kind |-> "status", status |-> code, signedURL |-> <<>>, signedUrls |-> <<>>]
RespMalformed == [kind |-> "malformed", status |-> 200, signedURL |-> <<>>, signedUrls |-> <<>>]
RespBody(url, urls) == [kind |-> "body", status |-> 200, signedURL |-> url, signedUrls |-> urls]
\* An entry of signedUrls: a dict with signedURL and signedUrl, or a str.
UrlDict(a, b) == [t |-> "dict", signedURL |-> a, signedUrl |-> b, v |-> <<>>]
UrlStr(v) == [t |-> "str", signedURL |-> <<>>, signedUrl |-> <<>>, v |-> v]

\* The signed URL read from a body ("" if none).
SignedUrlOf(body) ==
  IF body.signedURL # <<>> THEN body.signedURL
  ELSE IF body.signedUrls # <<>> THEN
    LET first == body.signedUrls[1] IN
      IF first.t = "dict"
      THEN (IF first.signedURL # <<>> THEN first.signedURL ELSE first.signedUrl)
      ELSE first.v
  ELSE <<>>

\* A signed URL made absolute.
AbsoluteUrl(signed_url) ==
  IF StartsWith(signed_url, Http) \/ StartsWith(signed_url, Https) THEN signed_url
  ELSE IF StartsWith(signed_url, <<"/", "s", "t", "o", "r", "a", "g", "e", "/", "v", "1", "/">>) THEN SUPABASE_URL \o signed_url
  ELSE IF StartsWith(signed_url, <<"/", "o", "b", "j", "e", "c", "t", "/">>)
    THEN SUPABASE_URL \o <<"/", "s", "t", "o", "r", "a", "g", "e", "/", "v", "1">> \o signed_url
  ELSE IF StartsWith(signed_url, <<"o", "b", "j", "e", "c", "t", "/">>)
    THEN SUPABASE_URL \o <<"/", "s", "t", "o", "r", "a", "g", "e", "/", "v", "1", "/">> \o signed_url
  ELSE SUPABASE_URL \o <<"/">> \o LStripChar(signed_url, "/")

SignShapes == <<"sign: path in URL", "sign: path", "sign: paths">>

\* The sign loop from attempt i on: the URL and error returned, and the
\* requests sent.
RECURSIVE SignLoop(_, _, _, _)
SignLoop(answers, i, last_error, sent) ==
  IF i > Len(SignShapes)
  THEN [url |-> <<>>,
        err |-> IF last_error # "" THEN last_error ELSE "could not make a signed URL",
        sent |-> sent]
  ELSE LET r == answers[i]
           sent1 == Append(sent, SignShapes[i])
       IN
    IF r.kind = "exception" \/ r.kind = "malformed"
      THEN SignLoop(answers, i + 1, "sign: communication error", sent1)
    ELSE IF r.status # 200
      THEN SignLoop(answers, i + 1, "sign: status not 200", sent1)
    ELSE IF SignedUrlOf(r) = <<>>
      THEN SignLoop(answers, i + 1, "sign: no signed URL in the answer", sent1)
    ELSE [url |-> AbsoluteUrl(SignedUrlOf(r)), err |-> "", sent |-> sent1]

\* A variant of create_supabase_signed_csv_url: the answer to the upload is not
\* looked at.
create_supabase_signed_csv_url_unchecked(configured, upload, signs) ==
  IF ~configured
    THEN [url |-> <<>>, err |-> "Supabase secrets are not set", sent |-> <<>>]
  ELSE SignLoop(signs, 1, "", <<"upload">>)

\* create_supabase_signed_csv_url(data, ttl_minutes), the collaborator
\* configured or not and answering upload and signs as given.
create_supabase_signed_csv_url(configured, upload, signs) ==
  IF ~configured
    THEN [url |-> <<>>, err |-> "Supabase secrets are not set", sent |-> <<>>]
  ELSE IF upload.kind = "exception"
    THEN [url |-> <<>>, err |-> "upload: communication error", sent |-> <<"upload">>]
  ELSE IF upload.status \notin {200, 201}
    THEN [url |-> <<>>, err |-> "upload: failed", sent |-> <<"upload">>]
  ELSE SignLoop(signs, 1, "", <<"upload">>)

SignAnswers ==
  {RespException, RespStatus(400), RespStatus(201), RespMalformed, RespBody(<<>>, <<>>),
   RespBody(<<"/", "/", "s", "i", "g", "n", "/", "p">>, <<>>),
   RespBody(<<"/", "o", "b", "j", "e", "c", "t", "/", "s", "i", "g", "n", "/", "b", "/", "p", "?", "t", "o", "k", "e", "n", "=", "t">>, <<>>),
   RespBody(<<>>, <<UrlDict(<<>>, <<"h", "t", "t", "p", "s", ":", "/", "/", "s", ".", "c", "o", "/", "x", "?", "t", "o", "k", "e", "n", "=", "t">>)>>),
   RespBody(<<>>, <<UrlStr(<<"o", "b", "j", "e", "c", "t", "/", "s", "i", "g", "n", "/", "b", "/", "p">>)>>)}
UploadAnswers == {RespException, RespStatus(500), RespStatus(200), RespStatus(201)}

\* What the collaborator can be and answer.
Collaborations ==
  {[configured |-> c, upload |-> u, signs |-> <<s1, s2, s3>>] :
     c \in BOOLEAN, u \in UploadAnswers, s1 \in SignAnswers, s2 \in SignAnswers,
     s3 \in SignAnswers}

\* The collaborations met by the share button: not configured, the upload
\* refused, no signed URL from any attempt, a signed URL from the first or
\* from the last attempt.
ShareCollaborations ==
  {c \in Collaborations :
     \/ ~c.configured /\ c.upload = RespException /\ c.signs[1] = RespException
          /\ c.signs[2] = RespException /\ c.signs[3] = RespException
     \/ c.configured /\ c.upload = RespStatus(500) /\ c.signs[1] = RespException
          /\ c.signs[2] = RespException /\ c.signs[3] = RespException
     \/ c.configured /\ c.upload = RespStatus(200) /\ c.signs[1] = RespStatus(400)
          /\ c.signs[2] = RespMalformed /\ c.signs[3] = RespBody(<<>>, <<>>)
     \/ c.configured /\ c.upload = RespStatus(201) /\ c.signs[1].signedURL # <<>>
          /\ c.signs[2] = RespException /\ c.signs[3] = RespException
     \/ c.configured /\ c.upload = RespStatus(200) /\ c.signs[1] = RespStatus(400)
          /\ c.signs[2] = RespStatus(400) /\ c.signs[3].signedUrls # <<>>}

\* What create_supabase_signed_csv_url returns to the share button.
SignedResults ==
  {[url |-> r.url, err |-> r.err] :
     r \in {create_supabase_signed_csv_url(c.configured, c.upload, c.signs) :
              c \in ShareCollaborations}}

PayloadQuery == <<"/", "?", "p", "a", "y", "l", "o", "a", "d", "=">>

\* A variant of ShareLink: no fallback when the collaborator fails.
ShareLinkNoFallback(signed, ctx, csv_bytes, t) == signed.url

\* The share URL the button makes (lines 773-777): the signed URL, or the
\* payload link made when the clock reads t.
ShareLink(signed, ctx, csv_bytes, t) ==
  IF signed.url = <<>> THEN
    normalize_public_url(current_app_base_url(ctx)) \o PayloadQuery
      \o encode_csv_payload(csv_bytes, FIXED_SHARE_TTL_MINUTES, t)
  ELSE signed.url

\* The clock of the share link: the first second of each whole minute, and
\* the same a share ttl later.
ShareClockValues ==
  LET early == {Minutes(m) + k : m \in 1..MaxMinute, k \in 0..TicksPerSec} IN
    early \cup {t + Minutes(FIXED_SHARE_TTL_MINUTES) : t \in early}

\* In the share link's clock a tick follows within the second after a whole
\* minute.
ShareFineTick(t) == (t % MinuteTicks) < TicksPerSec

\* What a later read of the clock in the share button's handler can give.
ShareLaterReads(t) == {t} \cup (IF ShareFineTick(t) THEN {t + 1} ELSE {})

\* ShareLink, tabulated.
ShareLinkTable ==
  [x \in SignedResults \X Contexts \X Data \X ShareClockValues |->
     ShareLink(x[1], x[2], x[3], x[4])] @@ <<>>

NoSession == [share_token |-> <<>>, share_expires_at |-> NoInt, share_url |-> <<>>]
NoPress ==
  [some |-> FALSE, signed |-> [url |-> <<>>, err |-> ""], ctx |-> NoContext,
   csv_bytes |-> <<>>, t1 |-> 0]
NoSigning ==
  [some |-> FALSE, configured |-> FALSE, upload |-> RespException,
   signs |-> <<RespException, RespException, RespException>>,
   result |-> [url |-> <<>>, err |-> "", sent |-> <<>>]]

\* int(d.total_seconds()) of a timedelta of d ticks.
TotalSecondsInt(d) == IF d >= 0 THEN d \div TicksPerSec ELSE -((-d) \div TicksPerSec)

\* The share column (lines 783-798), the clock read at t: what it shows and
\* the session it leaves.
ShareColumn(sess, t) ==
  IF sess.share_url # <<>> THEN
    IF TotalSecondsInt(sess.share_expires_at.val - t) > 0
    THEN [shown |-> "link", session |-> sess]
    ELSE [shown |-> "expired", session |-> NoSession]
  ELSE [shown |-> "nothing", session |-> sess]

\* A press of the share button: the script runs with the button pressed.
PressShare ==
  /\ \E signed \in SignedResults, ctx \in Contexts, csv \in Data, t2 \in ShareLaterReads(now) :
       LET sess == [share_token |-> <<>>,
                    share_expires_at |-> SomeInt(t2 + Minutes(FIXED_SHARE_TTL_MINUTES)),
                    share_url |-> ShareLinkTable[<<signed, ctx, csv, now>>]]
           col == ShareColumn(sess, t2)
       IN /\ session' = col.session
          /\ shown' = col.shown
          /\ pressed' = [some |-> TRUE, signed |-> signed, ctx |-> ctx,
                         csv_bytes |-> csv, t1 |-> now]
          /\ now' = t2
  /\ UNCHANGED <<urlVars, rowVars, storeVars, codecVars, signing>>

\* Any other run of the script on the builder page.
Rerun ==
  /\ LET col == ShareColumn(session, now) IN
       /\ session' = col.session
       /\ shown' = col.shown
  /\ pressed' = NoPress
  /\ UNCHANGED <<urlVars, rowVars, now, storeVars, codecVars, signing>>

\* A call of create_supabase_signed_csv_url.
Sign ==
  /\ ~signing.some
  /\ \E c \in Collaborations :
       signing' = [some |-> TRUE, configured |-> c.configured, upload |-> c.upload,
                   signs |-> c.signs,
                   result |-> create_supabase_signed_csv_url(c.configured, c.upload,
                                                             c.signs)]
  /\ UNCHANGED <<urlVars, rowVars, now, storeVars, codecVars, session, pressed, shown>>

TickShareFine ==
  /\ ShareFineTick(now)
  /\ now' = now + 1
  /\ pressed' = NoPress
  /\ UNCHANGED <<urlVars, rowVars, storeVars, codecVars, session, shown, signing>>

TickShareMinute ==
  /\ NextMinute(now) \in ShareClockValues
  /\ now' = NextMinute(now)
  /\ pressed' = NoPress
  /\ UNCHANGED <<urlVars, rowVars, storeVars, codecVars, session, shown, signing>>

\* The clock moves to the whole minute in which a link made now expires.
TickShareTtl ==
  /\ NextMinute(now) + Minutes(FIXED_SHARE_TTL_MINUTES - 1) \in ShareClockValues
  /\ now' = NextMinute(now) + Minutes(FIXED_SHARE_TTL_MINUTES - 1)
  /\ pressed' = NoPress
  /\ UNCHANGED <<urlVars, rowVars, storeVars, codecVars, session, shown, signing>>

(***************************************************************************)
(* The schedule normalizer.                                                *)
(***************************************************************************)
\* A cell: missing (None, NaN, NaT, pd.NA) or a text.
NA == [na |-> TRUE, s |-> <<>>]
Text(s) == [na |-> FALSE, s |-> s]

\* str.lower()
Lower(s) ==
  [i \in 1..Len(s) |-> IF Ord(s[i]) \in 65..90 THEN Chr(Ord(s[i]) + 32) ELSE s[i]]

NoneText == <<"n", "o", "n", "e">>

\* re.match(r"^\d{3,4}$", text)
MatchesDigits(text) == Len(text) \in {3, 4} /\ \A i \in 1..Len(text) : IsDigit(text[i])

\* f"{n:02d}" and %H, %M
Pad2(n) == IF n < 10 THEN <<"0">> \o NatToStr(n) ELSE NatToStr(n)

\* A variant of FormatHHMM: no zero padding.
FormatHHMMUnpadded(h, m) == NatToStr(h) \o <<":">> \o NatToStr(m)

\* f"{h:02d}:{m:02d}"
FormatHHMM(h, m) == Pad2(h) \o <<":">> \o Pad2(m)

\* What pd.to_datetime(text, errors="coerce") gives: NaT or a timestamp, of
\* which only the time of day is used.
NaT == [nat |-> TRUE, h |-> 0, m |-> 0]
TimeOfDay(h, m) == [nat |-> FALSE, h |-> h, m |-> m]

\* A variant of Strftime: %H%M.
StrftimeNoColon(parsed) == Pad2(parsed.h) \o Pad2(parsed.m)

\* parsed.strftime("%H:%M")
Strftime(parsed) == Pad2(parsed.h) \o <<":">> \o Pad2(parsed.m)

\* A time of day written H:MM or HH:MM.
IsClockText(text) ==
  /\ Len(text) \in {4, 5}
  /\ text[Len(text) - 2] = ":"
  /\ \A i \in 1..Len(text) : i # Len(text) - 2 => IsDigit(text[i])
  /\ DigitsToInt(SubSeq(text, 1, Len(text) - 3)) <= 23
  /\ DigitsToInt(SubSeq(text, Len(text) - 1, Len(text))) <= 59

\* pd.to_datetime(text, errors="coerce"): the time of day for a clock text;
\* for any other text what the parser makes of it, given as parse.
to_datetime(text, parse) ==
  IF IsClockText(text)
  THEN TimeOfDay(DigitsToInt(SubSeq(text, 1, Len(text) - 3)),
                 DigitsToInt(SubSeq(text, Len(text) - 1, Len(text))))
  ELSE parse

\* Whether the digits of text give an hour and a minute (lines 110-116).
DigitsInRange(text) ==
  LET h == IF Len(text) = 3 THEN DigitsToInt(SubSeq(text, 1, 1))
           ELSE DigitsToInt(SubSeq(text, 1, 2))
      m == IF Len(text) = 3 THEN DigitsToInt(SubSeq(text, 2, 3))
           ELSE DigitsToInt(SubSeq(text, 3, 4))
  IN 0 <= h /\ h <= 23 /\ 0 <= m /\ m <= 59

\* Whether the normalizer hands the text of value to pd.to_datetime.
ReachesParser(value) ==
  LET text == Strip(value.s) IN
    /\ ~value.na
    /\ text # <<>>
    /\ Lower(text) # NoneText
    /\ ~(MatchesDigits(text) /\ DigitsInRange(text))

\* The body of the loop of normalize_schedule_to_hhmm (lines 102-123).
normalize_schedule_value(value, parse) ==
  IF value.na THEN <<>>
  ELSE
    LET text == Strip(value.s) IN
    IF text = <<>> \/ Lower(text) = NoneText THEN <<>>
    ELSE IF MatchesDigits(text) /\ DigitsInRange(text)
      THEN IF Len(text) = 3
           THEN FormatHHMM(DigitsToInt(SubSeq(text, 1, 1)), DigitsToInt(SubSeq(text, 2, 3)))
           ELSE FormatHHMM(DigitsToInt(SubSeq(text, 1, 2)), DigitsToInt(SubSeq(text, 3, 4)))
    ELSE
      LET parsed == to_datetime(text, parse) IN
        IF ~parsed.nat THEN Strftime(parsed) ELSE text

\* normalize_schedule_to_hhmm(series)
normalize_schedule_to_hhmm(series, parse) ==
  [i \in 1..Len(series) |-> Text(normalize_schedule_value(series[i], parse))]

\* The texts of at most n characters of alphabet.
RECURSIVE TextsUpTo(_, _)
TextsUpTo(alphabet, n) ==
  IF n = 0 THEN {<<>>}
  ELSE LET shorter == TextsUpTo(alphabet, n - 1) IN
    shorter \cup {Append(t, c) : t \in {u \in shorter : Len(u) = n - 1}, c \in alphabet}

ScheduleAlphabet == {"0", "2", "3", "4", "5", "6", "9", ":", " ", "x"}
CanonicalTexts == {FormatHHMM(h, m) : h \in 0..23, m \in 0..59}
ShortClockTexts == {NatToStr(h) \o <<":">> \o Pad2(m) : h \in 0..9, m \in 0..59}
NoneTexts == {<<"n", "o", "n", "e">>, <<"N", "o", "n", "e">>, <<"N", "O", "N", "E">>, <<" ", "n", "O", "n", "E", " ">>}

\* The texts of at most n characters given to the normalizer: digits,
\* shorter texts of the alphabet bare and with a space before or after, clock
\* texts, none.
ScheduleTexts(n) ==
  LET shorter == TextsUpTo(ScheduleAlphabet, n - 1) IN
    TextsUpTo(ScheduleAlphabet \cap DigitSet, n) \cup shorter
      \cup {<<" ">> \o t : t \in shorter} \cup {Append(t, " ") : t \in shorter}
      \cup CanonicalTexts \cup ShortClockTexts \cup NoneTexts

\* The values given to the normalizer.
ScheduleValues(n) == {NA} \cup {Text(t) : t \in ScheduleTexts(n)}

\* What the parser makes of a text that is no clock text.
Parses == {NaT, TimeOfDay(0, 0), TimeOfDay(7, 5)}

NoNorm == [some |-> FALSE, value |-> NA, parsed |-> NaT, once |-> <<>>, twice |-> <<>>]

\* normalize_schedule_to_hhmm applied to a value, and to what it returned.
Normalize ==
  /\ ~norm.some
  /\ \E value \in ScheduleValues(MaxText) :
       \E parse \in IF ReachesParser(value) /\ ~IsClockText(Strip(value.s))
                    THEN Parses ELSE {NaT} :
         LET once == normalize_schedule_value(value, parse)
             same == Strip(once) = Strip(value.s)
         IN \E again \in IF same THEN {parse}
                         ELSE IF ReachesParser(Text(once)) /\ ~IsClockText(Strip(once))
                         THEN Parses ELSE {NaT} :
              norm' = [some |-> TRUE, value |-> value, parsed |-> parse, once |-> once,
                       twice |-> normalize_schedule_value(Text(once), again)]
  /\ UNCHANGED <<urlVars, now, storeVars, codecVars, shareVars, table_df, defaults, filled, output_df>>

(***************************************************************************)
(* The task table: row defaulting and export.                              *)
(***************************************************************************)
COLUMNS == {"DueDate", "Schedule", "Section", "Project", "Tag", "TaskName", "Estimated"}

\* A DueDate cell: missing, a value pd.to_datetime cannot read, or a date.
NoDate == [kind |-> "NaT", y |-> 0, m |-> 0, d |-> 0]
BadDate == [kind |-> "unparseable", y |-> 0, m |-> 0, d |-> 0]
Date(y, m, d) == [kind |-> "date", y |-> y, m |-> m, d |-> d]

\* An Estimated cell: missing, a value pd.to_numeric cannot read, or a number.
NoNumber == [kind |-> "NaN", n |-> 0]
BadNumber == [kind |-> "unparseable", n |-> 0]
Number(n) == [kind |-> "number", n |-> n]

\* pd.to_datetime(column, errors="coerce"), pd.to_numeric(column, errors="coerce")
ToDate(cell) == IF cell.kind = "date" THEN cell ELSE NoDate
ToNumeric(cell) == IF cell.kind = "number" THEN cell ELSE NoNumber

Row(due, schedule, section, project, tag, task, estimated) ==
  [DueDate |-> due, Schedule |-> schedule, Section |-> section, Project |-> project,
   Tag |-> tag, TaskName |-> task, Estimated |-> estimated]

\* .astype("string").fillna("")
FillNa(cell) == IF cell.na THEN <<>> ELSE cell.s

\* A variant of FillText: the default, when there is one, whatever the cell.
FillTextAlways(cell, default) ==
  IF default # <<>> THEN Text(default) ELSE Text(Strip(FillNa(cell)))

\* A text cell of fill_blank_with_default (lines 84-86, 89-91).
FillText(cell, default) ==
  LET stripped == Strip(FillNa(cell)) IN
    IF default # <<>> /\ stripped = <<>> THEN Text(default) ELSE Text(stripped)

\* The DueDate and Estimated cells of fill_blank_with_default.
FillDate(cell, due_date) == IF ToDate(cell).kind = "NaT" THEN due_date ELSE ToDate(cell)
FillNumber(cell, estimated) ==
  IF ToNumeric(cell).kind = "NaN" THEN Number(estimated) ELSE ToNumeric(cell)

\* fill_blank_with_default(df, defaults): the frame it was given as the call
\* leaves it, and the frame it returns.
fill_blank_with_default(df, dflt) ==
  [df |-> df,
   out |-> [i \in 1..Len(df) |->
              Row(FillDate(df[i].DueDate, dflt.due_date),
                  FillText(df[i].Schedule, dflt.Schedule),
                  FillText(df[i].Section, dflt.Section),
                  FillText(df[i].Project, dflt.Project),
                  FillText(df[i].Tag, dflt.Tag),
                  FillText(df[i].TaskName, dflt.TaskName),
                  FillNumber(df[i].Estimated, dflt.Estimated))]]

ESTIMATED_OTHER == <<"o", "t", "h", "e", "r">>

\* estimated_from_choice(choice, other_value)
estimated_from_choice(choice, other_value) ==
  IF choice = ESTIMATED_OTHER THEN other_value
  ELSE IF choice # <<>> /\ \A i \in 1..Len(choice) : IsDigit(choice[i])
    THEN DigitsToInt(choice)
  ELSE 5

\* The defaults record made of the widgets (lines 603-611).
Defaults(due_date, schedule, section, project, tag, task_name, est_choice, est_other) ==
  [due_date |-> due_date, Schedule |-> Strip(schedule), Section |-> section,
   Project |-> project, Tag |-> tag, TaskName |-> Strip(task_name),
   Estimated |-> estimated_from_choice(est_choice, est_other)]

\* strftime("%Y/%m/%d") of a DueDate cell, and fillna("").
DateText(cell) ==
  IF cell.kind = "date"
  THEN NatToStr(cell.y) \o <<"/">> \o Pad2(cell.m) \o <<"/">> \o Pad2(cell.d)
  ELSE <<>>

\* A variant of KeepRow: every row.
KeepRowAny(row) == TRUE

\* The rows the export keeps (line 756).
KeepRow(row) == row.TaskName.s # <<>>

\* output_df (lines 754-760): the rows kept, each with its index in the table.
Export(df, dflt) ==
  LET out == fill_blank_with_default(df, dflt).out
      stripped == [i \in 1..Len(out) |->
                     [index |-> i - 1,
                      row |-> [out[i] EXCEPT !.TaskName = Text(Strip(FillNa(@)))]]]
      kept == SelectSeq(stripped, LAMBDA x : KeepRow(x.row))
  IN [k \in 1..Len(kept) |->
        [index |-> kept[k].index,
         DueDate |-> DateText(ToDate(kept[k].row.DueDate)),
         Schedule |-> normalize_schedule_value(kept[k].row.Schedule, NaT),
         Section |-> kept[k].row.Section.s,
         Project |-> kept[k].row.Project.s,
         Tag |-> kept[k].row.Tag.s,
         TaskName |-> kept[k].row.TaskName.s,
         Estimated |-> kept[k].row.Estimated]]

\* current_df (lines 518-530) of the session table.
current_df(df) ==
  [i \in 1..Len(df) |->
     [df[i] EXCEPT !.Section = Text(FillNa(@)), !.Project = Text(FillNa(@)),
                   !.Tag = Text(FillNa(@)), !.TaskName = Text(FillNa(@)),
                   !.Schedule = Text(normalize_schedule_value(@, NaT)),
                   !.Estimated = ToNumeric(@)]]

\* The cells of the samples.  No Schedule text of the samples is left to the
\* parser to decide.
BlankTexts == {NA, Text(<<>>), Text(<<" ">>)}
SampleDate == Date(2026, 1, 5)
SampleSchedule == Text(<<" ", "9", "3", "0">>)
SampleText == Text(<<" ", "s", " ">>)
SampleTask == Text(<<" ", "t", " ">>)
SampleNumber == Number(15)

\* The rows the data editor can leave: a DateColumn and a NumberColumn hold a
\* value or nothing.
EditorRows ==
  {Row(NoDate, b, b, b, b, b, NoNumber) : b \in {NA, Text(<<>>)}}
    \cup {Row(SampleDate, SampleSchedule, SampleText, SampleText, SampleText, t, SampleNumber) :
            t \in BlankTexts \cup {SampleTask}}
    \cup {Row(NoDate, NA, NA, NA, NA, SampleTask, NoNumber)} \cup {}

\* The rows fill_blank_with_default can be given: those, and rows of cells
\* that cannot be read.
FrameRows ==
  EditorRows \cup {Row(BadDate, Text(<<" ">>), Text(<<" ">>), Text(<<" ">>), Text(<<" ">>),
                       t, BadNumber) : t \in {Text(<<" ">>), SampleTask}}

\* The frames of at most MaxRows rows.
RECURSIVE FramesUpTo(_, _)
FramesUpTo(rows, n) ==
  IF n = 0 THEN {<<>>}
  ELSE LET shorter == FramesUpTo(rows, n - 1) IN
    shorter \cup {Append(f, r) : f \in {g \in shorter : Len(g) = n - 1}, r \in rows}

\* The frames fill_blank_with_default is given.
Frames == FramesUpTo(FrameRows, MaxRows) \cup {}

DefaultDate == Date(2026, 11, 5)

\* The defaults records: what the widgets hold.
DefaultsRecords ==
  {Defaults(DefaultDate, sc, x[1], x[1], x[1], t, x[2], x[3]) :
     sc \in {<<>>, <<"0", "8", "0", "0">>},
     x \in {<< <<>>, <<"3", "0">>, 30>>, << <<"p">>, ESTIMATED_OTHER, 7>>},
     t \in {<<>>, <<" ">>, <<" ", "d", " ">>}} \cup {}

InitialDefaults == Defaults(DefaultDate, <<>>, <<>>, <<>>, <<>>, <<>>, <<"3", "0">>, 30)

NoFill == [some |-> FALSE, before |-> <<>>, defaults |-> InitialDefaults, df |-> <<>>, out |-> <<>>]

\* A call of fill_blank_with_default.
Fill ==
  /\ ~filled.some
  /\ \E df \in Frames, dflt \in DefaultsRecords :
       LET res == fill_blank_with_default(df, dflt) IN
         filled' = [some |-> TRUE, before |-> df, defaults |-> dflt, df |-> res.df,
                    out |-> res.out]
  /\ UNCHANGED <<urlVars, now, storeVars, codecVars, shareVars, norm, table_df, defaults, output_df>>

\* A run of the script on the builder page: the widgets hold dflt, the
\* session table is df when the data editor returns.
Run(df, dflt) ==
  /\ table_df' = current_df(df)
  /\ defaults' = dflt
  /\ output_df' = Export(current_df(df), dflt)
  /\ UNCHANGED <<urlVars, now, storeVars, codecVars, shareVars, norm, filled>>

\* The block of a task line is added to the sheet (lines 700-727).
AddBlock ==
  /\ Len(table_df) < MaxRows
  /\ \E sc \in {<<"0", "7", "0", "5", " ">>} :
       Run(Append(table_df,
                  Row(DefaultDate, Text(Strip(sc)), Text(defaults.Section),
                      Text(defaults.Project), Text(defaults.Tag), Text(Strip(<<" ", "t", " ">>)),
                      Number(defaults.Estimated))),
           defaults)

\* A row of the sheet is edited (lines 729-752).
EditRow ==
  \E i \in 1..Len(table_df), r \in EditorRows :
    Run([current_df(table_df) EXCEPT ![i] = r], defaults)

\* A defaults widget is changed.
SetDefaults == \E dflt \in DefaultsRecords : Run(table_df, dflt)

(***************************************************************************)
(* normalize_public_url as a function of its argument.                     *)
(***************************************************************************)
\* The pieces a raw base URL is made of: scheme markers, right and with a
\* doubled colon, two hosts, a slash, a space.
UrlPieces == {Https, Http, HttpsTypo, HttpTypo, <<"a">>, <<"b">>, <<"/">>, <<" ">>}

\* The raw base URLs of at most n pieces.
RECURSIVE UrlsUpTo(_)
UrlsUpTo(n) ==
  IF n = 0 THEN {<<>>}
  ELSE LET shorter == UrlsUpTo(n - 1) IN
    shorter \cup {u \o p : u \in shorter, p \in UrlPieces}

NoPublicUrl == [some |-> FALSE, url |-> <<>>, once |-> <<>>, twice |-> <<>>]

\* normalize_public_url applied to a raw base URL, and to what it returned.
NormalizeUrl ==
  /\ ~public_url.some
  /\ \E u \in UrlsUpTo(MaxPieces) :
       LET once == normalize_public_url(u) IN
       public_url' = [some |-> TRUE, url |-> u, once |-> once,
                      twice |-> normalize_public_url(once)]
  /\ UNCHANGED <<now, storeVars, codecVars, shareVars, rowVars>>

(***************************************************************************)
(* The token store and the redemption page as a state machine.             *)
(***************************************************************************)
NoLink == [some |-> FALSE, payload |-> <<>>, data |-> <<>>, ttl |-> 0, t0 |-> 0]
NoDecoded ==
  [some |-> FALSE, kind |-> "", payload |-> <<>>, at |-> 0,
   res |-> [data |-> NoBytes, exp |-> NoInt]]

TickFine ==
  /\ FineTick(now)
  /\ now' = now + 1
  /\ page' = NoPage
  /\ decoded' = NoDecoded
  /\ UNCHANGED <<urlVars, rowVars, TEMP_DOWNLOADS, issued, link, shareVars>>

TickMinute ==
  /\ NextMinute(now) <= Minutes(MaxMinute)
  /\ now' = NextMinute(now)
  /\ page' = NoPage
  /\ decoded' = NoDecoded
  /\ UNCHANGED <<urlVars, rowVars, TEMP_DOWNLOADS, issued, link, shareVars>>

\* secrets.token_urlsafe(18): a token no earlier call returned.
FreshToken == Cardinality(DOMAIN issued) + 1

\* A call of create_temp_download.
Issue ==
  /\ Cardinality(DOMAIN issued) < MaxTokens
  /\ \E d \in {DownloadOf(FreshToken)}, ttl \in StoreTtls, t2 \in LaterReads(now) :
       LET store == create_temp_download(TEMP_DOWNLOADS, FreshToken, d.data,
                                         d.file_name, ttl, now, t2)
       IN /\ TEMP_DOWNLOADS' = store
          /\ issued' = [k \in DOMAIN issued \cup {FreshToken} |->
                          IF k = FreshToken THEN store[FreshToken] ELSE issued[k]]
          /\ now' = t2
  /\ page' = NoPage
  /\ UNCHANGED <<urlVars, rowVars, codecVars, shareVars>>

\* A request with a payload parameter (a token parameter beside it is not read).
RequestPayload ==
  /\ \E p \in PagePayloads :
       \E tok \in IF p = <<"Q", "U", "J", "D">> THEN {NoToken, SomeToken(1)} ELSE {NoToken} :
         page' = Both(PayloadPage(p, now), Asked(p, tok, now, now))
  /\ UNCHANGED <<urlVars, rowVars, now, TEMP_DOWNLOADS, issued, codecVars, shareVars>>

\* A request with a token parameter and no payload parameter.
RequestToken ==
  /\ \E tok \in 0..MaxTokens, t2 \in LaterReads(now) :
       LET r == get_temp_download(TEMP_DOWNLOADS, tok, now, t2) IN
         /\ TEMP_DOWNLOADS' = r.store
         /\ page' = Both(TokenPage(r.item), Asked(<<>>, SomeToken(tok), now, t2))
         /\ now' = t2
  /\ UNCHANGED <<urlVars, rowVars, issued, codecVars, shareVars>>

\* A request with neither parameter.
RequestMain ==
  /\ page' = Both(MainPage, Asked(<<>>, NoToken, now, now))
  /\ UNCHANGED <<urlVars, rowVars, now, TEMP_DOWNLOADS, issued, codecVars, shareVars>>

Init ==
  /\ now = StartClock
  /\ TEMP_DOWNLOADS = <<>>
  /\ issued = <<>>
  /\ page = NoPage
  /\ link = NoLink
  /\ decoded = NoDecoded
  /\ session = NoSession
  /\ pressed = NoPress
  /\ shown = "nothing"
  /\ signing = NoSigning
  /\ norm = NoNorm
  /\ table_df = <<>>
  /\ defaults = InitialDefaults
  /\ filled = NoFill
  /\ output_df = <<>>
  /\ public_url = NoPublicUrl

NextStore == TickFine \/ TickMinute \/ Issue \/ RequestPayload \/ RequestToken \/ RequestMain

SpecStore == Init /\ [][NextStore]_vars

(***************************************************************************)
(* The payload codec as a state machine.                                   *)
(***************************************************************************)
\* A call of encode_csv_payload.
Encode ==
  /\ \E d \in CodecData, ttl \in CodecTtls :
       link' = [some |-> TRUE, payload |-> EncodeTable[<<d, ttl, now>>],
                data |-> d, ttl |-> ttl, t0 |-> now]
  /\ decoded' = NoDecoded
  /\ UNCHANGED <<urlVars, rowVars, now, storeVars, shareVars>>

Decoded(kind, payload, t) ==
  [some |-> TRUE, kind |-> kind, payload |-> payload, at |-> t,
   res |-> DecodeTable[<<payload, t>>]]

\* decode_csv_payload of the link encode produced.
DecodeLink ==
  /\ link.some
  /\ decoded' = Decoded("link", link.payload, now)
  /\ UNCHANGED <<urlVars, rowVars, now, link, storeVars, shareVars>>

\* decode_csv_payload of the link with a character outside the alphabet in it.
DecodeDamaged ==
  /\ link.some
  /\ \E i \in DamagedAt(link.payload) :
       decoded' = Decoded("bad base64", Damaged(link.payload, i), now)
  /\ UNCHANGED <<urlVars, rowVars, now, link, storeVars, shareVars>>

\* decode_csv_payload of a string encode did not produce.
DecodeForeign ==
  /\ \E f \in ForeignPayloads : decoded' = Decoded(f.kind, f.payload, now)
  /\ UNCHANGED <<urlVars, rowVars, now, link, storeVars, shareVars>>

NextCodec == TickFine \/ TickMinute \/ Encode \/ DecodeLink \/ DecodeDamaged \/ DecodeForeign

SpecCodec == Init /\ [][NextCodec]_vars

NextShare == TickShareFine \/ TickShareMinute \/ TickShareTtl \/ PressShare \/ Rerun

SpecShare == Init /\ [][NextShare]_vars

NextSign == Sign

SpecSign == Init /\ [][NextSign]_vars

NextNorm == Normalize

SpecNorm == Init /\ [][NextNorm]_vars

NextFill == Fill

SpecFill == Init /\ [][NextFill]_vars

NextRows == AddBlock \/ EditRow \/ SetDefaults

SpecRows == Init /\ [][NextRows]_vars

NextUrl == NormalizeUrl

SpecUrl == Init /\ [][NextUrl]_vars


(***************************************************************************)
(* Properties of the token store and the redemption page (SpecStore).      *)
(***************************************************************************)
\* The token the page was asked for, and what is known of it.
Asked1 == page.token.val
TokenRequest == page.view = "token"
WasIssued == TokenRequest /\ Asked1 \in DOMAIN issued
\* The request ended (its last clock read) strictly before the expiry.
BeforeExpiry == WasIssued /\ page.at < issued[Asked1].expires_at
\* The request ended at or after the expiry.
AfterExpiry == WasIssued /\ issued[Asked1].expires_at <= page.at
NeverIssued == TokenRequest /\ Asked1 \notin DOMAIN issued

\* C1: a redeem that ends strictly before the record's expires_at returns
\* exactly the issued data and filename, however many redeems, issues and
\* other requests came before, and it leaves the record in the store as it
\* was issued.
C1_RedeemBeforeExpiry ==
  BeforeExpiry =>
    /\ page.outcome = "download"
    /\ page.data = issued[Asked1].data
    /\ page.file_name = issued[Asked1].file_name
    /\ Asked1 \in DOMAIN TEMP_DOWNLOADS
    /\ TEMP_DOWNLOADS[Asked1] = issued[Asked1]

\* C1 witness: the first token is downloaded a minute after the start, when a
\* second token has been issued too.
C1_Witness ==
  /\ BeforeExpiry
  /\ Asked1 = 1
  /\ 2 \in DOMAIN issued
  /\ page.at >= StartClock + MinuteTicks
  /\ page.outcome = "download"

\* C2 as the spec states it: the outcome of redeeming an expired token can be
\* told from the outcome of redeeming a token that was never issued (two
\* requests in a row, the first for an expired token, the second for an
\* unknown one, do not end the same way).
C2_Original ==
  [][(AfterExpiry /\ NeverIssued') =>
       <<page.outcome, page.msg>> # <<page'.outcome, page'.msg>>]_vars

\* C2 as amended: redeeming an issued token at or after its expires_at
\* returns None and leaves no record for the token; redeeming a token that
\* was never issued returns None as well.
C2_ExpiredOrUnknownIsNone ==
  /\ AfterExpiry => page.outcome = "error" /\ Asked1 \notin DOMAIN TEMP_DOWNLOADS
  /\ NeverIssued => page.outcome = "error" /\ Asked1 \notin DOMAIN TEMP_DOWNLOADS

\* C2 witness: a token issued with a ttl of one minute is redeemed after its
\* expiry.
C2_Witness ==
  /\ AfterExpiry
  /\ issued[Asked1].expires_at >= StartClock + MinuteTicks
  /\ page.outcome = "error"

\* What a payload of PagePayloads is, when the clock reads t.
SampleLink == encode_csv_payload(<<65, 44, 66>>, 1, StartClock)
SampleExp == TimestampInt(StartClock) + SecondsPerMinute
PayloadTruth(payload, t) ==
  IF payload = SampleLink
  THEN (IF t < SampleExp * TicksPerSec THEN "ok" ELSE "expired")
  ELSE "invalid"
\* What the link or token of the page shown is.
Truth(p) ==
  IF p.view = "payload" THEN PayloadTruth(p.payload, p.at)
  ELSE IF p.token.val \notin DOMAIN issued THEN "invalid"
  ELSE IF issued[p.token.val].expires_at <= p.at THEN "expired"
  ELSE "ok"
Redemption(p) == p.view \in {"payload", "token"}

\* C5 as the spec states it: at either entry point an expired link gets a
\* message other than the one an invalid link gets (two requests in a row at
\* the same entry point, for an expired link and then for an invalid one,
\* show different messages).
C5_Original ==
  [][(/\ Redemption(page) /\ Redemption(page') /\ page.view = page'.view
      /\ Truth(page) = "expired" /\ Truth(page)' = "invalid")
       => page.msg # page'.msg]_vars

\* C5 as amended: every request with a payload or a token parameter ends
\* in a download or in an error message.  At the payload entry point a live
\* link is offered for download, an expired link gets the expired message,
\* a payload that does not decode gets the other, corrupt message, and an
\* envelope without exp is reported expired.  At the token entry point a
\* live token is offered for download with its data and filename, and an
\* expired token and an unknown token get one and the same message.
C5_PageOutcomes ==
  /\ Redemption(page) => page.outcome \in {"download", "error"}
  /\ page.view = "payload" =>
       /\ (page.outcome = "download") = (Truth(page) = "ok")
       /\ Truth(page) = "ok" =>
            page.data = <<65, 44, 66>> /\ page.file_name = "tasks.csv"
       /\ Truth(page) = "expired" => page.msg = MsgPayloadExpired
       /\ page.payload = <<"Q", "U", "J", "D">> => page.msg = MsgPayloadCorrupt
       /\ page.payload = PackText(EmptyObjectText) => page.msg = MsgPayloadExpired
       /\ MsgPayloadExpired # MsgPayloadCorrupt
  /\ page.view = "token" =>
       /\ (page.outcome = "download") = (Truth(page) = "ok")
       /\ Truth(page) = "ok" =>
            /\ page.data = issued[Asked1].data
            /\ page.file_name = issued[Asked1].file_name
       /\ Truth(page) # "ok" => page.msg = MsgTokenInvalidOrExpired

\* C5 witness: the payload page reports an expired link.
C5_Witness ==
  /\ page.view = "payload"
  /\ Truth(page) = "expired"
  /\ page.msg = MsgPayloadExpired

(***************************************************************************)
(* Properties of the payload codec (SpecCodec).                            *)
(***************************************************************************)
\* The exp of the link, as the claim gives it: the whole seconds of the time
\* of issue plus 60 seconds a minute of ttl.
LinkExp == TimestampInt(link.t0) + 60 * link.ttl

\* C3: a link decoded at a time before its exp gives back the data, byte for
\* byte, and the exp; decoded at its exp or later it gives no data and the exp.
C3_RoundTrip ==
  (decoded.some /\ decoded.kind = "link") =>
    IF decoded.at < LinkExp * TicksPerSec
    THEN decoded.res = [data |-> SomeBytes(link.data), exp |-> SomeInt(LinkExp)]
    ELSE decoded.res = [data |-> NoBytes, exp |-> SomeInt(LinkExp)]

\* C3 witness: a link issued within a second is decoded a minute later and
\* gives back its three bytes.
C3_Witness ==
  /\ decoded.some /\ decoded.kind = "link"
  /\ link.t0 % TicksPerSec # 0
  /\ decoded.at >= link.t0 + MinuteTicks - ClockWindow
  /\ decoded.res.data = SomeBytes(<<65, 44, 66>>)

\* C4: for a string that encode did not produce, decode returns neither data
\* nor an expiry.
C4_ForeignIsAbsent ==
  (decoded.some /\ decoded.kind # "link") =>
    ~decoded.res.data.some /\ ~decoded.res.exp.some

\* C4: the envelope without exp, decoded.
C4_Witness ==
  /\ decoded.some /\ decoded.kind = "no exp"
  /\ decoded.res.exp = SomeInt(0)

(***************************************************************************)
(* C6: the share link.                                                     *)
(***************************************************************************)
\* The request context gives a base URL: a scheme and a host.
ContextKnown == pressed.ctx.known /\ pressed.ctx.scheme # <<>> /\ pressed.ctx.netloc # <<>>
ContextBase == pressed.ctx.scheme \o <<":", "/", "/">> \o pressed.ctx.netloc
CollaboratorFailed == pressed.signed.url = <<>>
PressedPayloadLink(base) ==
  base \o PayloadQuery
    \o encode_csv_payload(pressed.csv_bytes, FIXED_SHARE_TTL_MINUTES, pressed.t1)
TokenQuery == <<"?", "t", "o", "k", "e", "n", "=">>

\* C6 as stated: after a press of the share button the session holds a
\* non-empty share URL: the collaborator's signed URL if it gave one; if it
\* failed, a payload link when the request gives a base URL, else a link of
\* the token store (a ?token= link, its token issued in TEMP_DOWNLOADS).
C6_Original ==
  pressed.some =>
    /\ session.share_url # <<>>
    /\ ~CollaboratorFailed => session.share_url = pressed.signed.url
    /\ CollaboratorFailed /\ ContextKnown =>
         session.share_url = PressedPayloadLink(ContextBase)
    /\ CollaboratorFailed /\ ~ContextKnown =>
         /\ Count(session.share_url, TokenQuery) > 0
         /\ session.share_token # <<>>
         /\ DOMAIN TEMP_DOWNLOADS # {}

\* C6 as the code has it: after a press of the share button the session holds
\* a non-empty share URL: the collaborator's signed URL if it gave one; if it
\* failed in any way, a payload link, on the base URL of the request when it
\* gives one and on DEFAULT_PUBLIC_APP_URL when it gives none.  The token
\* store is never used: no token is issued and share_token is empty.
C6_ShareFallback ==
  pressed.some =>
    /\ session.share_url # <<>>
    /\ ~CollaboratorFailed => session.share_url = pressed.signed.url
    /\ CollaboratorFailed /\ ContextKnown =>
         session.share_url = PressedPayloadLink(ContextBase)
    /\ CollaboratorFailed /\ ~ContextKnown =>
         session.share_url = PressedPayloadLink(DEFAULT_PUBLIC_APP_URL)
    /\ session.share_token = <<>>
    /\ DOMAIN TEMP_DOWNLOADS = {}

\* The collaborator failed and the request gave no base URL; a link was made.
C6_Witness ==
  /\ pressed.some
  /\ CollaboratorFailed
  /\ ~ContextKnown
  /\ session.share_url = PressedPayloadLink(DEFAULT_PUBLIC_APP_URL)
  /\ shown = "link"

(***************************************************************************)
(* C7, C8: the schedule normalizer.                                        *)
(***************************************************************************)
Trimmed == Strip(norm.value.s)
ThreeOrFourDigits ==
  ~norm.value.na /\ Len(Trimmed) \in {3, 4} /\ \A i \in 1..Len(Trimmed) : Trimmed[i] \in DigitSet
HourOf == DigitsToInt(SubSeq(Trimmed, 1, Len(Trimmed) - 2))
MinuteOf == DigitsToInt(SubSeq(Trimmed, Len(Trimmed) - 1, Len(Trimmed)))
\* t is hh:mm, two digits each, of hour h and minute m.
IsHHMM(t, h, m) ==
  /\ Len(t) = 5
  /\ t[3] = ":"
  /\ \A i \in {1, 2, 4, 5} : t[i] \in DigitSet
  /\ DigitsToInt(SubSeq(t, 1, 2)) = h
  /\ DigitsToInt(SubSeq(t, 4, 5)) = m

\* C7: a value whose trimmed text is 3 or 4 digits, the hour its first one or
\* two digits and the minute its last two, with hour in 0..23 and minute in
\* 0..59, normalizes to the zero-padded HH:MM of that hour and minute; a
\* missing or empty value and "none" in any case normalize to the empty text.
C7_DigitsAndEmpty ==
  norm.some =>
    /\ (ThreeOrFourDigits /\ HourOf <= 23 /\ MinuteOf <= 59) =>
         IsHHMM(norm.once, HourOf, MinuteOf)
    /\ (norm.value.na \/ Trimmed = <<>> \/ Lower(Trimmed) = NoneText) => norm.once = <<>>

\* " 930" was normalized to "09:30".
C7_Witness ==
  /\ norm.some
  /\ norm.value = Text(<<" ", "9", "3", "0">>)
  /\ norm.once = <<"0", "9", ":", "3", "0">>

\* t is a canonical HH:MM.
IsCanonical(t) ==
  /\ Len(t) = 5
  /\ t[3] = ":"
  /\ \A i \in {1, 2, 4, 5} : t[i] \in DigitSet
  /\ DigitsToInt(SubSeq(t, 1, 2)) <= 23
  /\ DigitsToInt(SubSeq(t, 4, 5)) <= 59

\* C8: normalizing what the normalizer returned returns it again; a canonical
\* HH:MM with hour in 0..23 and minute in 0..59 is returned unchanged.
C8_Idempotent ==
  norm.some =>
    /\ norm.twice = norm.once
    /\ (~norm.value.na /\ IsCanonical(norm.value.s)) => norm.once = norm.value.s

\* "9:30" was normalized to "09:30", and "09:30" to itself.
C8_Witness ==
  /\ norm.some
  /\ norm.value = Text(<<"9", ":", "3", "0">>)
  /\ norm.once = <<"0", "9", ":", "3", "0">>
  /\ norm.twice = norm.once

(***************************************************************************)
(* C9: row defaulting.  C10: the export.                                   *)
(***************************************************************************)
TextColumnNames == {"Schedule", "Section", "Project", "Tag", "TaskName"}
\* A text cell is blank: missing, empty or only spaces.
BlankText(cell) == cell.na \/ \A k \in 1..Len(cell.s) : cell.s[k] = " "

\* C9: fill_blank_with_default returns a frame of as many rows and of the same
\* columns as the frame it is given and leaves that frame as it was; a blank
\* cell (missing, empty, only spaces; unreadable for DueDate and Estimated)
\* gets the default of its column, and a populated cell keeps its value, a
\* text without the spaces around it.
C9_FillFrame ==
  filled.some =>
    /\ Len(filled.out) = Len(filled.before)
    /\ filled.df = filled.before
    /\ \A i \in 1..Len(filled.before) :
         /\ DOMAIN filled.out[i] = DOMAIN filled.before[i]
         /\ DOMAIN filled.out[i] = COLUMNS
         /\ \A c \in TextColumnNames :
              filled.out[i][c] =
                IF BlankText(filled.before[i][c]) THEN Text(filled.defaults[c])
                ELSE Text(Strip(filled.before[i][c].s))
         /\ filled.out[i].DueDate =
              IF filled.before[i].DueDate.kind = "date" THEN filled.before[i].DueDate
              ELSE filled.defaults.due_date
         /\ filled.out[i].Estimated =
              IF filled.before[i].Estimated.kind = "number" THEN filled.before[i].Estimated
              ELSE Number(filled.defaults.Estimated)

\* A row with a blank TaskName and a populated Section was filled under
\* defaults for both: the TaskName is the default, the Section is kept.
C9_Witness ==
  /\ filled.some
  /\ filled.defaults.TaskName # <<>>
  /\ filled.defaults.Section # <<>>
  /\ \E i \in 1..Len(filled.before) :
       /\ BlankText(filled.before[i].TaskName)
       /\ ~BlankText(filled.before[i].Section)
       /\ filled.out[i].TaskName = Text(filled.defaults.TaskName)
       /\ filled.out[i].Section = Text(Strip(filled.before[i].Section.s))
       /\ filled.out[i].Section # Text(filled.defaults.Section)

\* The rows of the table with a TaskName after defaulting and trimming.
WithTaskName ==
  {i \in 1..Len(table_df) : ~BlankText(table_df[i].TaskName) \/ defaults.TaskName # <<>>}

\* C10: the exported table holds exactly the rows of the table whose TaskName
\* is not empty after defaulting and trimming, in the order of the table; no
\* exported row has an empty TaskName; a row with a blank TaskName is exported
\* if and only if the defaults record has a TaskName.
C10_ExportInvariant ==
  /\ {output_df[k].index + 1 : k \in 1..Len(output_df)} = WithTaskName
  /\ \A k \in 1..Len(output_df) - 1 : output_df[k].index < output_df[k + 1].index
  /\ \A k \in 1..Len(output_df) :
       LET row == table_df[output_df[k].index + 1] IN
         /\ output_df[k].TaskName # <<>>
         /\ output_df[k].TaskName =
              IF BlankText(row.TaskName) THEN defaults.TaskName ELSE Strip(row.TaskName.s)
         /\ \A c \in {"Section", "Project", "Tag"} :
              output_df[k][c] = IF BlankText(row[c]) THEN defaults[c] ELSE Strip(row[c].s)
  /\ \A i \in 1..Len(table_df) :
       BlankText(table_df[i].TaskName) =>
         ((\E k \in 1..Len(output_df) : output_df[k].index + 1 = i) <=> defaults.TaskName # <<>>)

\* Of two rows the first has a blank TaskName and the defaults record has
\* none: only the second row is exported.
C10_Witness ==
  /\ Len(table_df) = 2
  /\ BlankText(table_df[1].TaskName)
  /\ defaults.TaskName = <<>>
  /\ Len(output_df) = 1
  /\ output_df[1].index = 1

(***************************************************************************)
(* C11, C15: normalize_public_url.                                         *)
(***************************************************************************)
\* t with every doubled colon after a scheme repaired, read left to right.
RECURSIVE ColonsRepaired(_)
ColonsRepaired(t) ==
  IF t = <<>> THEN <<>>
  ELSE IF OccursAt(t, HttpsTypo, 1)
    THEN Https \o ColonsRepaired(SubSeq(t, Len(HttpsTypo) + 1, Len(t)))
  ELSE IF OccursAt(t, HttpTypo, 1)
    THEN Http \o ColonsRepaired(SubSeq(t, Len(HttpTypo) + 1, Len(t)))
  ELSE <<t[1]>> \o ColonsRepaired(Tail(t))
\* Where the scheme markers of t start.
MarkersOf(t) == {i \in 1..Len(t) : OccursAt(t, Http, i) \/ OccursAt(t, Https, i)}
LastMarkerOf(t) == CHOOSE i \in MarkersOf(t) : \A j \in MarkersOf(t) : j <= i
RawRepaired == ColonsRepaired(Strip(public_url.url))

\* C11: normalize_public_url repairs a doubled colon after a scheme (the
\* result holds none), and of a text with two or more scheme markers it keeps
\* the text from the last marker on, without the slashes at its end: of two
\* concatenated URLs only the last is left.
C11_RepairAndKeepLast ==
  public_url.some =>
    LET repaired == RawRepaired
        markers == MarkersOf(repaired)
    IN
    /\ Count(public_url.once, HttpsTypo) = 0
    /\ Count(public_url.once, HttpTypo) = 0
    /\ Cardinality(markers) >= 2 =>
         public_url.once =
           RStripChar(SubSeq(repaired, LastMarkerOf(repaired), Len(repaired)), "/")
    /\ markers = {1} => public_url.once = RStripChar(repaired, "/")

\* "https:://a/" gave "https://a", and "https://ahttp:://b/" gave "http://b".
C11_Witness ==
  /\ public_url.some
  /\ \/ /\ public_url.url = HttpsTypo \o <<"a", "/">>
        /\ public_url.once = Https \o <<"a">>
     \/ /\ public_url.url = Https \o <<"a">> \o HttpTypo \o <<"b">>
        /\ public_url.once = Http \o <<"b">>

\* C15: normalize_public_url applied to its own result changes nothing, and
\* a result that is not empty starts with a scheme and does not end with a
\* slash.
C15_IdempotentSchemeComplete ==
  public_url.some =>
    /\ public_url.twice = public_url.once
    /\ public_url.once # <<>> =>
         /\ StartsWith(public_url.once, Http) \/ StartsWith(public_url.once, Https)
         /\ public_url.once[Len(public_url.once)] # "/"

(***************************************************************************)
(* C12: when records leave the token store (SpecStore).                    *)
(***************************************************************************)
\* The step is a call of create_temp_download, of get_temp_download.
IssueCall == issued' # issued
RedeemCall == page'.view = "token"
IssuedToken == CHOOSE k \in DOMAIN issued' : k \notin DOMAIN issued
\* The records of the store that the step removed.
Removed == {k \in DOMAIN TEMP_DOWNLOADS : k \notin DOMAIN TEMP_DOWNLOADS'}
ExpiresAt(k) == TEMP_DOWNLOADS[k].expires_at

\* C12 as the spec states it: a call made at time t (any reading of the clock
\* between its first and its last) leaves no record with expires_at <= t in
\* the store and removes no record with expires_at > t; no other step removes
\* a record.
C12_Original ==
  [][IF IssueCall \/ RedeemCall
       THEN \E t \in now..now' :
              /\ \A k \in DOMAIN TEMP_DOWNLOADS' : TEMP_DOWNLOADS'[k].expires_at > t
              /\ \A k \in Removed : ExpiresAt(k) <= t
       ELSE Removed = {}]_vars

\* C12 as amended: an issue or redeem call removes every record that was in
\* the store with expires_at at or before its first clock read (the cleanup),
\* and keeps unchanged every record with expires_at after its last clock
\* read; a record that expires between the two reads is removed only if it is
\* the record asked for by the redeem, which is removed when its expires_at is
\* at or before the last read; the record just issued stays, whatever its
\* expires_at; no other step removes a record.
C12_CleanupAtFirstRead ==
  [][IF IssueCall \/ RedeemCall
       THEN /\ \A k \in DOMAIN TEMP_DOWNLOADS :
                 /\ ExpiresAt(k) <= now => k \in Removed
                 /\ ExpiresAt(k) > now' =>
                      k \notin Removed /\ TEMP_DOWNLOADS'[k] = TEMP_DOWNLOADS[k]
                 /\ k \in Removed /\ ExpiresAt(k) > now =>
                      RedeemCall /\ k = page'.token.val
                 /\ RedeemCall /\ k = page'.token.val /\ ExpiresAt(k) <= now' =>
                      k \in Removed
            /\ IssueCall =>
                 /\ IssuedToken \in DOMAIN TEMP_DOWNLOADS'
                 /\ DOMAIN TEMP_DOWNLOADS' \subseteq DOMAIN TEMP_DOWNLOADS \cup {IssuedToken}
            /\ RedeemCall => DOMAIN TEMP_DOWNLOADS' \subseteq DOMAIN TEMP_DOWNLOADS
       ELSE TEMP_DOWNLOADS' = TEMP_DOWNLOADS]_vars

\* C12 witness: the second token was issued or redeemed when the first had
\* expired: the first record is gone, the second, not yet expired, is there.
C12_Witness ==
  /\ DOMAIN issued = {1, 2}
  /\ issued[1].expires_at <= now
  /\ 1 \notin DOMAIN TEMP_DOWNLOADS
  /\ 2 \in DOMAIN TEMP_DOWNLOADS
  /\ TEMP_DOWNLOADS[2].expires_at > now

(***************************************************************************)
(* C13: the requests create_supabase_signed_csv_url sends (SpecSign).      *)
(***************************************************************************)
\* The upload was answered with success.
UploadOk == signing.upload.kind = "status" /\ signing.upload.status \in {200, 201}
\* An answer carries a signed URL that is not empty.
HasSignedUrl(r) ==
  \/ r.signedURL # <<>>
  \/ /\ r.signedUrls # <<>>
     /\ \/ r.signedUrls[1].signedURL # <<>>
        \/ r.signedUrls[1].signedUrl # <<>>
        \/ r.signedUrls[1].v # <<>>
\* The sign attempts answered with success and a signed URL.
SignsOk ==
  {i \in 1..Len(SignShapes) :
     signing.signs[i].kind = "body" /\ signing.signs[i].status = 200
       /\ HasSignedUrl(signing.signs[i])}
\* How many sign requests are due after a good upload.
SignsDue == IF SignsOk = {} THEN Len(SignShapes) ELSE CHOOSE i \in SignsOk : \A j \in SignsOk : i <= j

\* C13: create_supabase_signed_csv_url always returns; it sends no sign
\* request unless the upload succeeded; after a good upload it sends the sign
\* shapes in their order up to the first that answers with success and a
\* signed URL, three at most; the URL returned is not empty exactly when the
\* upload and one sign attempt succeeded, and an empty URL comes with an error
\* text.
C13_SignProtocol ==
  signing.some =>
    LET res == signing.result IN
    /\ ~signing.configured => res.sent = <<>>
    /\ signing.configured /\ ~UploadOk => res.sent = <<"upload">>
    /\ signing.configured /\ UploadOk =>
         res.sent = <<"upload">> \o SubSeq(SignShapes, 1, SignsDue)
    /\ Cardinality({i \in 1..Len(res.sent) : res.sent[i] # "upload"}) <= 3
    /\ res.url # <<>> <=> (signing.configured /\ UploadOk /\ SignsOk # {})
    /\ res.url = <<>> => res.err # ""

\* C13 witness: the upload is accepted, the first sign shape is refused, the
\* second answers with a signed URL: two sign requests are sent, the third is
\* not, and a URL is returned.
C13_Witness ==
  /\ signing.some
  /\ signing.configured
  /\ signing.upload = RespStatus(201)
  /\ signing.signs[1] = RespStatus(400)
  /\ 2 \in SignsOk
  /\ 3 \in SignsOk
  /\ signing.result.sent = <<"upload", SignShapes[1], SignShapes[2]>>
  /\ signing.result.url # <<>>

(***************************************************************************)
(* C14: the share link shown and the link's own expiry (SpecShare).        *)
(***************************************************************************)
\* The session holds a payload link; the payload it carries, decoded now.
SessionPayloadLink == Count(session.share_url, PayloadQuery) > 0
SessionPayload ==
  SubSeq(session.share_url, RFind(session.share_url, PayloadQuery) + Len(PayloadQuery) + 1,
         Len(session.share_url))
SessionDecoded == decode_csv_payload(SessionPayload, now)

\* C14: whenever the session holds a payload link and the clock is before
\* share_expires_at, decoding the payload of the link at that time returns
\* the data; and share_expires_at is never later than the exp the link
\* carries.
C14_LiveLinkRedeemable ==
  SessionPayloadLink =>
    /\ now < session.share_expires_at.val => SessionDecoded.data.some
    /\ SessionDecoded.exp.some
    /\ session.share_expires_at.val <= SessionDecoded.exp.val * TicksPerSec

====
